---- MODULE Spec2Model ----
(***************************************************************************)
(* EnergyMonitor of server/text_generation_server/utils/energy.py.         *)
(*                                                                         *)
(* One caller thread issues initialize, start_measurement and              *)
(* get_measurement in any order; every start_measurement launches a        *)
(* sampler thread running _measure_power.                                  *)
(*                                                                         *)
(* Floats are kept as exact fixed-point integers: a power of w watts is    *)
(* the integer w * PowerScale, a time of s seconds is the integer          *)
(* s * TimeScale, an energy of j joules is the integer                     *)
(* j * PowerScale * TimeScale.                                             *)
(*                                                                         *)
(* The attributes start_time and end_time are written by the code and read *)
(* nowhere; they are left out of the state.                                *)
(***************************************************************************)
EXTENDS Integers, Sequences, FiniteSets, TLC

\* ---- bounds of the model ------------------------------------------------
MaxStarts == 2      \* start_measurement calls (= sampler threads) explored
MaxIters == 2       \* sampler iterations explored, over all threads
MaxLen == 3         \* longest sample series handed to the integration alone

\* ---- program constants --------------------------------------------------
SleepNs == 1000000          \* time.sleep(0.001), in nanoseconds
NsPerSec == 1000000000      \* timestamps / 1e9
CpuWattsDen == 10           \* cpu_percent * 0.1
MilliPerWatt == 1000        \* power / 1000.0
LoggerBound == FALSE        \* the module binds no name "logger"

\* ---- fixed-point representation of floats -------------------------------
PowerScale == 100                    \* integer units per watt
TimeScale == NsPerSec \div SleepNs   \* integer units per second
TickNs == SleepNs                    \* clock resolution of the model

\* ---- what the environment may answer ------------------------------------
CpuPercents == {10, 50}              \* psutil.cpu_percent()
GpuMilliwatts == {20000}             \* nvmlDeviceGetPowerUsage(handle)
DeviceCounts == {0, 2}               \* nvmlDeviceGetCount()
Oversleep == {0, TickNs}             \* time.sleep returns on time or late

Threads == 1..MaxStarts
NoThread == 0

None == [some |-> FALSE, v |-> 0]
Float(x) == [some |-> TRUE, v |-> x]
NoResult == [cpu |-> None, gpu |-> None]

VARIABLES
    NVML_AVAILABLE,      \* module flag set at import
    gpu_handles,         \* self.gpu_handles
    initialized,         \* self.initialized
    measurement_thread,  \* self.measurement_thread (NoThread for None)
    stop_event,          \* self.stop_event.is_set()
    power_queue,         \* content of the Queue self.power_queue refers to
    now,                 \* time.time_ns()
    nthreads,            \* Thread objects created so far
    pc,                  \* position of every sampler thread
    niter,               \* sampler iterations begun so far
    wake,                \* instant at which a thread's time.sleep is due
    cpc,                 \* position of the caller thread
    measurements,        \* the list get_measurement drained, until the
                         \* caller's next call
    result,              \* the value the call in `last` returned
    last                 \* the caller's last call: op, the monitor state it
                         \* was made in (pre), the thread it joins, whether
                         \* GPU discovery raised in it (fault), its outcome;
                         \* alternating: every start_measurement so far was
                         \* made while Idle, every get_measurement while
                         \* Measuring

vars == <<NVML_AVAILABLE, gpu_handles, initialized, measurement_thread,
          stop_event, power_queue, now, nthreads, pc, niter, wake, cpc,
          measurements, result, last>>

monitor == <<NVML_AVAILABLE, gpu_handles, initialized>>
caller == <<cpc, measurements, result, last>>

\* MonitorState of the specification, as the code can tell it.
MonitorState == IF measurement_thread = NoThread THEN "Idle" ELSE "Measuring"

\* A call that returns (or raises) without blocking.
Called(op, fault, outcome) ==
    [op |-> op, pre |-> MonitorState, thread |-> NoThread, fault |-> fault,
     outcome |-> outcome,
     alternating |-> last.alternating
                        /\ (op = "start_measurement" => MonitorState = "Idle")]

\* A sampler thread between Thread.start() and the end of _measure_power.
Alive(t) == pc[t] \in {"check", "iter", "sleep"}

\* ---- the integration of get_measurement ---------------------------------
Column(ms, k) == [i \in 1..Len(ms) |-> ms[i][k]]

ToSec(t) == t \div (NsPerSec \div TimeScale)

np_diffReversed(a) == [i \in 1..(Len(a) - 1) |-> a[i] - a[i + 1]]

np_diff(a) == [i \in 1..(Len(a) - 1) |-> a[i + 1] - a[i]]

AllButFirst(a) == [i \in 1..(Len(a) - 1) |-> a[i + 1]]

AllButLast(a) == [i \in 1..(Len(a) - 1) |-> a[i]]

np_mul(a, b) == [i \in 1..Len(a) |-> a[i] * b[i]]

RECURSIVE np_sumShort(_)
np_sumShort(a) ==
    IF Len(a) <= 1 THEN 0 ELSE a[1] + np_sumShort(Tail(a))

RECURSIVE np_sum(_)
np_sum(a) == IF a = <<>> THEN 0 ELSE a[1] + np_sum(Tail(a))

EnergiesGpuFromCpu(ms) ==
    LET timestamps == Column(ms, 1)
        cpu_powers == Column(ms, 2)
        timestamps_sec == [i \in 1..Len(ms) |-> ToSec(timestamps[i])]
        time_diffs == np_diff(timestamps_sec)
    IN [cpu |-> Float(np_sum(np_mul(AllButLast(cpu_powers), time_diffs))),
        gpu |-> Float(np_sum(np_mul(AllButLast(cpu_powers), time_diffs)))]

Energies(ms) ==
    LET timestamps == Column(ms, 1)
        cpu_powers == Column(ms, 2)
        gpu_powers == Column(ms, 3)
        timestamps_sec == [i \in 1..Len(ms) |-> ToSec(timestamps[i])]
        time_diffs == np_diff(timestamps_sec)
    IN [cpu |-> Float(np_sum(np_mul(AllButLast(cpu_powers), time_diffs))),
        gpu |-> Float(np_sum(np_mul(AllButLast(gpu_powers), time_diffs)))]

IntegrateNoGuard(ms) == Energies(ms)

IntegrateShortNone(ms) == IF Len(ms) < 2 THEN NoResult ELSE Energies(ms)

Integrate(ms) == IF ms = <<>> THEN NoResult ELSE Energies(ms)

\* ---- sensors ------------------------------------------------------------
CpuPower(cpu_percent) == (cpu_percent * PowerScale) \div CpuWattsDen

GpuWatts(power) == (power * PowerScale) \div MilliPerWatt

RECURSIVE GpuSum(_)
GpuSum(readings) ==
    IF readings = <<>> THEN 0
    ELSE GpuWatts(readings[1]) + GpuSum(Tail(readings))

\* gpu_power = 0, then the sum over the handles when GPU sensing is on
GpuPower(readings) ==
    IF initialized /\ NVML_AVAILABLE THEN GpuSum(readings) ELSE 0

\* ---- initial state: EnergyMonitor() -------------------------------------
Init ==
    /\ NVML_AVAILABLE \in BOOLEAN
    /\ gpu_handles = <<>>
    /\ initialized = FALSE
    /\ measurement_thread = NoThread
    /\ stop_event = FALSE
    /\ power_queue = <<>>
    /\ now = 0
    /\ nthreads = 0
    /\ pc = [t \in Threads |-> "unstarted"]
    /\ niter = 0
    /\ wake = [t \in Threads |-> 0]
    /\ cpc = "idle"
    /\ measurements = <<>>
    /\ result = NoResult
    /\ last = [op |-> "none", pre |-> "Idle", thread |-> NoThread,
               fault |-> FALSE, outcome |-> "returned", alternating |-> TRUE]

\* ---- initialize ---------------------------------------------------------
\* NVML missing: the body is skipped.
InitializeNoNvml ==
    /\ cpc = "idle"
    /\ ~NVML_AVAILABLE
    /\ last' = Called("initialize", FALSE, "returned")
    /\ measurements' = <<>>
    /\ result' = NoResult
    /\ UNCHANGED <<monitor, measurement_thread, stop_event, power_queue, now,
                   nthreads, pc, niter, wake, cpc>>

\* Discovery succeeds and reports device_count devices.
InitializeOk ==
    /\ cpc = "idle"
    /\ NVML_AVAILABLE
    /\ \E device_count \in DeviceCounts :
          gpu_handles' = [i \in 1..device_count |-> i - 1]
    /\ initialized' = TRUE
    /\ last' = Called("initialize", FALSE, "returned")
    /\ measurements' = <<>>
    /\ result' = NoResult
    /\ UNCHANGED <<NVML_AVAILABLE, measurement_thread, stop_event,
                   power_queue, now, nthreads, pc, niter, wake, cpc>>

\* nvmlInit, nvmlDeviceGetCount or nvmlDeviceGetHandleByIndex raises: the
\* handler calls logger.warning, then resets the flag.
InitializeFail ==
    /\ cpc = "idle"
    /\ NVML_AVAILABLE
    /\ IF LoggerBound
       THEN /\ initialized' = FALSE
            /\ last' = Called("initialize", TRUE, "returned")
       ELSE /\ initialized' = initialized
            /\ last' = Called("initialize", TRUE, "NameError")
    /\ measurements' = <<>>
    /\ result' = NoResult
    /\ UNCHANGED <<NVML_AVAILABLE, gpu_handles, measurement_thread,
                   stop_event, power_queue, now, nthreads, pc, niter, wake,
                   cpc>>

\* ---- start_measurement --------------------------------------------------
\* self.stop_event.clear() is left out
StartMeasurementNoClear ==
    /\ cpc = "idle"
    /\ nthreads < MaxStarts
    /\ power_queue' = <<>>
    /\ nthreads' = nthreads + 1
    /\ measurement_thread' = nthreads + 1
    /\ pc' = [pc EXCEPT ![nthreads + 1] = "check"]
    /\ last' = Called("start_measurement", FALSE, "returned")
    /\ measurements' = <<>>
    /\ result' = NoResult
    /\ UNCHANGED <<monitor, stop_event, now, niter, wake, cpc>>

StartMeasurement ==
    /\ cpc = "idle"
    /\ nthreads < MaxStarts
    /\ stop_event' = FALSE
    /\ power_queue' = <<>>
    /\ nthreads' = nthreads + 1
    /\ measurement_thread' = nthreads + 1
    /\ pc' = [pc EXCEPT ![nthreads + 1] = "check"]
    /\ last' = Called("start_measurement", FALSE, "returned")
    /\ measurements' = <<>>
    /\ result' = NoResult
    /\ UNCHANGED <<monitor, now, niter, wake, cpc>>

\* ---- _measure_power, one sampler thread t -------------------------------
\* while True
SamplerCheckNoStop(t) ==
    /\ pc[t] = "check"
    /\ niter < MaxIters
    /\ pc' = [pc EXCEPT ![t] = "iter"]
    /\ niter' = niter + 1
    /\ UNCHANGED <<monitor, measurement_thread, stop_event, power_queue, now,
                   nthreads, wake, caller>>

\* while not self.stop_event.is_set()
SamplerCheck(t) ==
    /\ pc[t] = "check"
    /\ IF stop_event
       THEN /\ pc' = [pc EXCEPT ![t] = "done"]
            /\ niter' = niter
       ELSE /\ niter < MaxIters
            /\ pc' = [pc EXCEPT ![t] = "iter"]
            /\ niter' = niter + 1
    /\ UNCHANGED <<monitor, measurement_thread, stop_event, power_queue, now,
                   nthreads, wake, caller>>

\* One iteration without error: both sensors are read, the sample is put,
\* the thread calls time.sleep(0.001).
SamplerSample(t) ==
    /\ pc[t] = "iter"
    /\ \E cpu_percent \in CpuPercents :
       \E readings \in [1..Len(gpu_handles) -> GpuMilliwatts] :
          power_queue' = Append(power_queue,
                                <<now, CpuPower(cpu_percent),
                                  GpuPower(readings)>>)
    /\ wake' = [wake EXCEPT ![t] = now + SleepNs]
    /\ pc' = [pc EXCEPT ![t] = "sleep"]
    /\ UNCHANGED <<monitor, measurement_thread, stop_event, now, nthreads,
                   niter, caller>>

\* psutil.cpu_percent() raises: the handler runs and the loop is left (by
\* break, or by the handler's own NameError); nothing is put.
SamplerCpuError(t) ==
    /\ pc[t] = "iter"
    /\ pc' = [pc EXCEPT ![t] = "failed"]
    /\ UNCHANGED <<monitor, measurement_thread, stop_event, power_queue, now,
                   nthreads, niter, wake, caller>>

\* the sample is put with the GPU sum of the handles read so far
SamplerGpuErrorPartial(t) ==
    /\ pc[t] = "iter"
    /\ initialized /\ NVML_AVAILABLE
    /\ gpu_handles # <<>>
    /\ \E cpu_percent \in CpuPercents, power \in GpuMilliwatts :
          power_queue' = Append(power_queue,
                                <<now, CpuPower(cpu_percent),
                                  GpuWatts(power)>>)
    /\ pc' = [pc EXCEPT ![t] = "failed"]
    /\ UNCHANGED <<monitor, measurement_thread, stop_event, now, nthreads,
                   niter, wake, caller>>

\* nvmlDeviceGetPowerUsage raises for some handle: the same.
SamplerGpuError(t) ==
    /\ pc[t] = "iter"
    /\ initialized /\ NVML_AVAILABLE
    /\ gpu_handles # <<>>
    /\ pc' = [pc EXCEPT ![t] = "failed"]
    /\ UNCHANGED <<monitor, measurement_thread, stop_event, power_queue, now,
                   nthreads, niter, wake, caller>>

\* the loop condition is not evaluated again after the sleep
SamplerWakeNoCheck(t) ==
    /\ pc[t] = "sleep"
    /\ \E late \in Oversleep :
          now' = IF now < wake[t] + late THEN wake[t] + late ELSE now
    /\ wake' = [wake EXCEPT ![t] = 0]
    /\ pc' = [pc EXCEPT ![t] = "iter"]
    /\ UNCHANGED <<monitor, measurement_thread, stop_event, power_queue,
                   nthreads, niter, caller>>

\* time.sleep(0.001) returns: at least SleepNs have passed
SamplerWake(t) ==
    /\ pc[t] = "sleep"
    /\ \E late \in Oversleep :
          now' = IF now < wake[t] + late THEN wake[t] + late ELSE now
    /\ wake' = [wake EXCEPT ![t] = 0]
    /\ pc' = [pc EXCEPT ![t] = "check"]
    /\ UNCHANGED <<monitor, measurement_thread, stop_event, power_queue,
                   nthreads, niter, caller>>

Sampler(t) ==
    \/ SamplerCheck(t)
    \/ SamplerSample(t)
    \/ SamplerCpuError(t)
    \/ SamplerGpuError(t)
    \/ SamplerWake(t)

\* ---- get_measurement ----------------------------------------------------
\* self.stop_event.set(); if self.measurement_thread: ...
GetMeasurement ==
    /\ cpc = "idle"
    /\ stop_event' = TRUE
    /\ cpc' = IF measurement_thread # NoThread THEN "join" ELSE "drain"
    /\ last' = [op |-> "get_measurement", pre |-> MonitorState,
                thread |-> measurement_thread, fault |-> FALSE,
                outcome |-> "pending",
                alternating |-> last.alternating
                                   /\ MonitorState = "Measuring"]
    /\ measurements' = <<>>
    /\ result' = NoResult
    /\ UNCHANGED <<monitor, measurement_thread, power_queue, now, nthreads,
                   pc, niter, wake>>

\* self.measurement_thread.join(); self.measurement_thread = None
GetJoin ==
    /\ cpc = "join"
    /\ ~Alive(measurement_thread)
    /\ measurement_thread' = NoThread
    /\ cpc' = "drain"
    /\ UNCHANGED <<monitor, stop_event, power_queue, now, nthreads, pc,
                   niter, wake, measurements, result, last>>

\* while not self.power_queue.empty(): measurements.append(...get()); then
\* the integration and the return.  A put that lands while the loop runs is
\* drained last, as one that lands just before the loop; one that lands
\* after the last empty() stays in the queue, as one that lands after the
\* return: the loop and the return are one step.
GetReturn ==
    /\ cpc = "drain"
    /\ measurements' = power_queue
    /\ power_queue' = <<>>
    /\ result' = Integrate(measurements')
    /\ last' = [last EXCEPT !.outcome = "returned"]
    /\ cpc' = "idle"
    /\ UNCHANGED <<monitor, measurement_thread, stop_event, now, nthreads,
                   pc, niter, wake>>

Next ==
    \/ InitializeNoNvml
    \/ InitializeOk
    \/ InitializeFail
    \/ StartMeasurement
    \/ \E t \in Threads : Sampler(t)
    \/ GetMeasurement
    \/ GetJoin
    \/ GetReturn

Spec == Init /\ [][Next]_vars

\* Every started thread is scheduled, and the caller keeps running the call
\* it is in; nothing obliges the caller to make another call.
Fairness ==
    /\ \A t \in Threads : WF_vars(Sampler(t))
    /\ WF_vars(GetJoin)
    /\ WF_vars(GetReturn)

LiveSpec == Init /\ [][Next]_vars /\ Fairness

\* ---- the integration on its own ------------------------------------------
\* get_measurement at the point where the sampler has been joined and the
\* queue holds an arbitrary series of samples with increasing timestamps.
SeriesTimes == {0, NsPerSec \div 2, NsPerSec, 2 * NsPerSec}
SeriesCpuPercents == {0, 50, 100}
SeriesGpuMilliwatts == {0, 50000}

SeriesSamples ==
    {<<t, CpuPower(c), GpuWatts(g)>> :
        t \in SeriesTimes, c \in SeriesCpuPercents, g \in SeriesGpuMilliwatts}

Increasing(ms) == \A i \in 1..(Len(ms) - 1) : ms[i][1] < ms[i + 1][1]

SeriesInit ==
    /\ NVML_AVAILABLE = TRUE
    /\ gpu_handles = <<0>>
    /\ initialized = TRUE
    /\ measurement_thread = NoThread
    /\ stop_event = TRUE
    /\ \E n \in 0..MaxLen :
          /\ power_queue \in [1..n -> SeriesSamples]
          /\ Increasing(power_queue)
          /\ niter = n
          /\ now = IF n = 0 THEN 0 ELSE power_queue[n][1]
    /\ nthreads = 1
    /\ pc = [t \in Threads |-> IF t = 1 THEN "done" ELSE "unstarted"]
    /\ wake = [t \in Threads |-> 0]
    /\ cpc = "drain"
    /\ measurements = <<>>
    /\ result = NoResult
    /\ last = [op |-> "get_measurement", pre |-> "Measuring", thread |-> 1,
               fault |-> FALSE, outcome |-> "pending", alternating |-> TRUE]

SeriesSpec == SeriesInit /\ [][GetReturn]_vars

\* ---- claims -------------------------------------------------------------
Returned == last.op = "get_measurement" /\ last.outcome = "returned"

Watts(w) == w * PowerScale
Joules(j) == j * PowerScale * TimeScale

\* C1: a get_measurement made while the monitor is Idle (a second one in a
\* row, or one on a fresh monitor) signals InvalidStateError instead of
\* returning a result.
GetWhileIdleSignalsC1 ==
    (last.op = "get_measurement" /\ last.pre = "Idle" /\ cpc = "idle")
        => last.outcome = "InvalidStateError"

\* C2: a start_measurement made while the monitor is Measuring is rejected:
\* no sampler is launched, the buffer is not replaced, the cancellation
\* signal is not cleared.
StartWhileMeasuringRejectedC2 ==
    [][(StartMeasurement /\ MonitorState = "Measuring")
          => UNCHANGED <<nthreads, pc, power_queue, stop_event>>]_vars

\* C3: in every reachable state at most one sampler thread is alive, and
\* while the monitor is Idle between calls none is.
AtMostOneSamplerC3 ==
    /\ Cardinality({t \in Threads : Alive(t)}) <= 1
    /\ (cpc = "idle" /\ MonitorState = "Idle")
          => \A t \in Threads : ~Alive(t)

\* C4: from the completion of the join until get_measurement returns, no
\* thread appends a sample to power_queue.
NoPutWhileDrainingC4 ==
    [][cpc = "drain" => Len(power_queue') <= Len(power_queue)]_vars

\* C5: get_measurement returns (absent, absent) exactly when the drained
\* series is empty, and the two fields are absent together or present
\* together.
AbsentIffEmptyC5 ==
    Returned =>
        /\ (result = NoResult) <=> (measurements = <<>>)
        /\ result.cpu.some <=> result.gpu.some

WitnessC5 ==
    /\ Returned
    /\ last.pre = "Measuring"
    /\ measurements = <<>>
    /\ result = NoResult

\* C6: for a series of n >= 2 samples both energies are the left Riemann
\* sum over i = 0..n-2 of p[i] * (t[i+1] - t[i]), t in seconds; the power of
\* the last sample enters neither.
RECURSIVE LeftRiemann(_, _, _)
LeftRiemann(ms, k, i) ==
    IF i = 0 THEN 0
    ELSE LeftRiemann(ms, k, i - 1)
            + ms[i][k] * (ToSec(ms[i + 1][1]) - ToSec(ms[i][1]))

LeftRiemannC6 ==
    (Returned /\ Len(measurements) >= 2) =>
        /\ result.cpu = Float(LeftRiemann(measurements, 2,
                                          Len(measurements) - 1))
        /\ result.gpu = Float(LeftRiemann(measurements, 3,
                                          Len(measurements) - 1))

\* samples at 0, 1, 2 s with cpu = 5, 10, 10 W and gpu = 50, 0, 50 W
WitnessC6 ==
    /\ Returned
    /\ measurements = << <<0, Watts(5), Watts(50)>>,
                         <<NsPerSec, Watts(10), Watts(0)>>,
                         <<2 * NsPerSec, Watts(10), Watts(50)>> >>
    /\ result = [cpu |-> Float(Joules(15)), gpu |-> Float(Joules(50))]

\* C7: for a series of exactly one sample, whatever its readings,
\* get_measurement returns (0, 0), not (absent, absent).
SingleSampleZeroC7 ==
    (Returned /\ Len(measurements) = 1) =>
        result = [cpu |-> Float(0), gpu |-> Float(0)]

WitnessC7 ==
    /\ Returned
    /\ Len(measurements) = 1
    /\ measurements[1][2] > 0
    /\ measurements[1][3] > 0
    /\ result = [cpu |-> Float(0), gpu |-> Float(0)]

\* C8: a sensor read error never reaches the caller: get_measurement raises
\* nothing, and once the sampler of the window has failed the buffer keeps
\* exactly the samples appended before the failing iteration until
\* get_measurement drains and integrates them.
WindowSampler == IF cpc = "idle" THEN measurement_thread ELSE last.thread

SensorErrorPartialC8 ==
    /\ [](last.op = "get_measurement"
             => last.outcome \in {"pending", "returned"})
    /\ [][(WindowSampler # NoThread /\ pc[WindowSampler] = "failed")
             => \/ power_queue' = power_queue
                \/ /\ cpc = "drain"
                   /\ measurements' = power_queue
                   /\ result' = Integrate(power_queue)]_vars

\* C9: initialize never fails the caller, and when GPU discovery raised in
\* it the flag initialized is false on return.
InitializeNeverFailsC9 ==
    last.op = "initialize" =>
        /\ last.outcome = "returned"
        /\ last.fault => ~initialized

\* C10: a get_measurement made while Measuring eventually returns, and it
\* does not return while the sampler thread it joins is alive.
GetReturnsC10 ==
    /\ (cpc # "idle" /\ last.pre = "Measuring")
          ~> (cpc = "idle" /\ Returned)
    /\ []((Returned /\ last.pre = "Measuring") => ~Alive(last.thread))

WitnessC10 ==
    /\ Returned
    /\ last.pre = "Measuring"
    /\ pc[last.thread] = "done"
    /\ measurements # <<>>

\* C11: when GPU sensing is unavailable (NVML not importable, or the flag
\* initialized false because initialize was never called or never
\* succeeded), every non-empty series gives gpu_joules = 0, present like
\* cpu_joules.
GpuUnavailable == ~(initialized /\ NVML_AVAILABLE)

Front(ms) == SubSeq(ms, 1, Len(ms) - 1)

NonNegative(ms) == \A i \in 1..Len(ms) : ms[i][2] >= 0 /\ ms[i][3] >= 0

MonotoneInLengthC12 ==
    (Returned /\ Len(measurements) >= 2 /\ NonNegative(measurements)) =>
        /\ result.cpu.v >= Integrate(Front(measurements)).cpu.v
        /\ result.gpu.v >= Integrate(Front(measurements)).gpu.v

\* the third sample adds a second interval of positive energy
WitnessC12 ==
    /\ Returned
    /\ Len(measurements) = 3
    /\ NonNegative(measurements)
    /\ Integrate(Front(measurements)).cpu.v > 0
    /\ result.cpu.v > Integrate(Front(measurements)).cpu.v
    /\ result.gpu.v = Integrate(Front(measurements)).gpu.v

\* C13: N > 1 samples of the same power P, spaced D apart, integrate to
\* P * D * (N - 1).
Uniform(ms) ==
    /\ \A i \in 1..Len(ms) : ms[i][2] = ms[1][2] /\ ms[i][3] = ms[1][3]
    /\ \A i \in 1..(Len(ms) - 1) :
          ms[i + 1][1] - ms[i][1] = ms[2][1] - ms[1][1]

ConstantPowerC13 ==
    (Returned /\ Len(measurements) >= 2 /\ Uniform(measurements)) =>
        LET N == Len(measurements)
            D == ToSec(measurements[2][1]) - ToSec(measurements[1][1])
        IN /\ result.cpu = Float(measurements[1][2] * D * (N - 1))
           /\ result.gpu = Float(measurements[1][3] * D * (N - 1))

\* scenario A: two samples 1 s apart at 10 W and 50 W
WitnessC13 ==
    /\ Returned
    /\ measurements = << <<0, Watts(10), Watts(50)>>,
                         <<NsPerSec, Watts(10), Watts(50)>> >>
    /\ result = [cpu |-> Float(Joules(10)), gpu |-> Float(Joules(50))]

\* C14: the series get_measurement integrates is in strictly increasing
\* timestamp order.
StrictlyIncreasingC14 == Returned => Increasing(measurements)

\* C15: every start_measurement installs an empty buffer, and only the
\* sampler launched by the most recent start_measurement appends to the
\* buffer of the window in progress.
Appends(t) == pc[t] = "iter" /\ pc'[t] = "sleep"

OnlyWindowSamplerAppendsC15 ==
    /\ [][StartMeasurement => power_queue' = <<>>]_vars
    /\ [][\A t \in Threads :
             (Appends(t) /\ WindowSampler # NoThread) => t = WindowSampler]_vars

\* C16: a sample leaves the buffer only by being drained into the series
\* that get_measurement integrates; none is dropped.
ConsumedExactlyOnceC16 ==
    [][Len(power_queue') < Len(power_queue)
          => (cpc = "drain" /\ measurements' = power_queue
                /\ result' = Integrate(power_queue))]_vars

\* C17: after an initialize in which GPU discovery raised, GPU measurement
\* is off, also when an earlier initialize had succeeded: every sample
\* appended after the failed call has gpu_power 0 (no handle is queried).
DiscoveryJustFailed == last.op = "initialize" /\ last.fault

GpuOffAfterFailedInitC17 ==
    [][(DiscoveryJustFailed /\ Len(power_queue') > Len(power_queue))
          => power_queue'[Len(power_queue')][3] = 0]_vars

\* C18: once get_measurement has set the cancellation signal, and for as
\* long as it is set, no sampler begins an iteration: a sampler completes at
\* most the iteration in flight, which appends at most one sample, and then
\* finds the signal at its next check.
CooperativeCancelC18 ==
    [][stop_event =>
          \A t \in Threads :
             /\ pc[t] # "iter" => pc'[t] # "iter"
             /\ pc[t] = "check" => pc'[t] \in {"check", "done"}]_vars

\* the signal is set while an iteration that follows an earlier sample is in
\* flight
WitnessC18 ==
    /\ cpc = "join"
    /\ stop_event
    /\ pc[last.thread] = "iter"
    /\ power_queue # <<>>

\* C19: the iteration in which a sensor read raises appends nothing, and
\* the sampler that failed never appends or runs again.
NoPartialNoRetryC19 ==
    /\ [][\A t \in Threads :
             (pc[t] # "failed" /\ pc'[t] = "failed")
                => power_queue' = power_queue]_vars
    /\ [][\A t \in Threads :
             pc[t] = "failed" => (pc'[t] = "failed" /\ ~Appends(t))]_vars

\* the sampler of the window failed in its second iteration
WitnessC19 ==
    /\ measurement_thread # NoThread
    /\ pc[measurement_thread] = "failed"
    /\ Len(power_queue) = 1
    /\ ~stop_event
    /\ nthreads = 1

\* C20: in an alternating sequence start_measurement, get_measurement,
\* start_measurement, ... the signal is clear when a sampler is launched, and
\* a sampler leaves its loop at the check only while the get_measurement
\* issued after the start_measurement that launched it is joining it; its
\* only other exit is a sensor error.
OwnSignalOnlyC20 ==
    /\ [][(StartMeasurement /\ last'.alternating) => ~stop_event']_vars
    /\ [][last.alternating =>
             \A t \in Threads :
                (Alive(t) /\ ~Alive(t)') =>
                   \/ pc'[t] = "failed"
                   \/ (pc'[t] = "done" /\ cpc = "join" /\ last.thread = t)]_vars

\* the sampler of the second window has put a sample although the signal of
\* the first window was set
WitnessC20 ==
    /\ last.alternating
    /\ last.op = "start_measurement"
    /\ nthreads = 2
    /\ pc[1] = "done"
    /\ pc[2] = "sleep"
    /\ ~stop_event

====
